---- MODULE Spec2Model ----
(***************************************************************************)
(* saltybytes: the versioned edit tree of a recipe and the asynchronous    *)
(* generation orchestrator that writes into it.                            *)
(*                                                                         *)
(* The relational store is modelled at the granularity of one committed    *)
(* transaction per step: the closure handed to gorm's DB.Transaction, or   *)
(* the Begin/Commit pair, takes effect as a whole or not at all.  Rows are *)
(* kept in creation order, a row's id is its position.                     *)
(***************************************************************************)
EXTENDS Naturals, Integers, Sequences, FiniteSets, TLC

\* ------------------------------------------------------------- bounds
MaxRecipes == 2      \* recipe rows ever created
MaxNodes   == 3      \* node rows ever created
MaxCalls   == 2      \* requests / commits in flight at the same time
MaxDef     == 2      \* distinct complete recipe definitions a provider returns
MaxUsers   == 2      \* users

Users   == 1..MaxUsers
Slots   == 1..MaxCalls
Defs    == 1..MaxDef         \* complete recipe definitions
NoDef   == 0                 \* a nil *RecipeDef / empty materialized fields
NULL    == 0                 \* a NULL / nil id

VARIABLES
    recipes,   \* recipes table: Seq of rows
    trees,     \* recipe_trees table: Seq of rows
    nodes,     \* recipe_nodes table: Seq of rows
    blobs,     \* object storage: set of recipe ids whose image key holds a blob
    calls,     \* store-level requests in flight, by slot
    ret,       \* HTTP status the last step answered a request with (0: none)
    err,       \* the error the last step's call returned or logged ("": none)
    lastAct,   \* history: per tree, the node the last committed activation asked for
    treeFail,  \* history: recipes one of whose tree writes failed
    tasks      \* Finish invocations: the parent and its two sub-tasks

vars == <<recipes, trees, nodes, blobs, calls, ret, err, lastAct, treeFail, tasks>>

\* ------------------------------------------------------------- rows

\* models.RecipeHistoryEntry
HistoryEntry(d, ty) == [resp |-> d, type |-> ty]

\* models.Recipe (the columns the edit tree and the orchestrator touch);
\* tags is the definition whose hashtags the recipe is associated with, for
\* a new row those of the definition it is created with.
RecipeRow(u, d, h) ==
    [owner |-> u, def |-> d, image |-> FALSE, hist |-> h,
     treeRef |-> NULL, deleted |-> FALSE, tags |-> d]

\* models.RecipeNode
NodeRow(t, p, d, ty, b, u, a) ==
    [tree |-> t, parent |-> p, resp |-> d, type |-> ty, branch |-> b,
     by |-> u, active |-> a]

\* models.RecipeTree
TreeRow(r, n) == [recipe |-> r, root |-> n]

RecipeIds == DOMAIN recipes
TreeIds   == DOMAIN trees
NodeIds   == DOMAIN nodes

\* gorm's soft delete: a row with deleted_at set is invisible to queries.
Visible(rs, r) == r \in DOMAIN rs /\ ~rs[r].deleted

\* ------------------------------------------------------------- the edit tree store

\* GetTreeByRecipeID: the tree of a recipe, NULL when it has none.
GetTreeByRecipeID(ts, r) ==
    IF \E t \in DOMAIN ts : ts[t].recipe = r
    THEN CHOOSE t \in DOMAIN ts : ts[t].recipe = r /\ \A s \in DOMAIN ts : ts[s].recipe = r => t <= s
    ELSE NULL

\* The nodes of a tree that are flagged active.
ActiveNodes(ns, t) == {n \in DOMAIN ns : ns[n].tree = t /\ ns[n].active}

\* GetActiveNode: the first active node of a tree, NULL when none is.
GetActiveNode(ns, t) ==
    IF ActiveNodes(ns, t) = {} THEN NULL
    ELSE CHOOSE n \in ActiveNodes(ns, t) : \A m \in ActiveNodes(ns, t) : n <= m

\* UPDATE recipe_nodes SET is_active = false WHERE tree_id = t AND id != keep
Deactivate(ns, t, keep) ==
    [n \in DOMAIN ns |->
        IF ns[n].tree = t /\ n # keep THEN [ns[n] EXCEPT !.active = FALSE] ELSE ns[n]]

\* UPDATE recipe_nodes SET is_active = true WHERE id = n
Activate(ns, n) ==
    [m \in DOMAIN ns |-> IF m = n THEN [ns[m] EXCEPT !.active = TRUE] ELSE ns[m]]

\* A variant of SetActiveNodeTx that forgets to deactivate the other nodes.
SetActiveNodeTx_KeepOthers(ns, t, n) == Activate(ns, n)

\* RecipeRepository.SetActiveNode, once the node was found in the tree.
SetActiveNodeTx(ns, t, n) == Activate(Deactivate(ns, t, NULL), n)

\* SetActiveNode's check that the node belongs to the tree.
NodeInTree(ns, t, n) == n \in DOMAIN ns /\ ns[n].tree = t

\* A variant of AddNodeToTreeTx that activates the new node whatever setActive is.
AddNodeToTreeTx_AlwaysActive(ns, node, setActive) ==
    Activate(Deactivate(Append(ns, node), node.tree, Len(ns) + 1), Len(ns) + 1)

\* A variant of AddNodeToTreeTx that leaves the previously active node active.
AddNodeToTreeTx_KeepOthers(ns, node, setActive) ==
    Append(ns, [node EXCEPT !.active = setActive \/ node.active])

\* RecipeRepository.AddNodeToTree: the rows after the transaction.
AddNodeToTreeTx(ns, node, setActive) ==
    LET id      == Len(ns) + 1
        created == Append(ns, node)
    IN  IF setActive THEN Activate(Deactivate(created, node.tree, id), id)
        ELSE created

\* A variant of CanCreateTree for a table without the unique index.
CanCreateTree_NoIndex(ts, r) == TRUE

\* RecipeRepository.CreateRecipeTree: the unique index on recipe_trees.recipe_id
\* rejects a second tree for the recipe.
CanCreateTree(ts, r) == ~\E t \in DOMAIN ts : ts[t].recipe = r

\* the error CreateRecipeTree returns: the unique index fails the tree
\* insert, or the store fails the transaction otherwise.
CreateTreeError(ts, r, ok) ==
    IF ~CanCreateTree(ts, r) THEN "duplicate tree"
    ELSE IF ~ok THEN "create tree"
    ELSE ""

\* A variant of TreesAfterCreate that never records the root on the tree.
TreesAfterCreate_RootUnset(ts, ns, r) == Append(ts, TreeRow(r, NULL))

\* A variant of RecipesAfterCreate that leaves the recipe's tree reference unset.
RecipesAfterCreate_NoRef(rs, ts, r) == rs

\* CreateRecipeTree: the three tables after the transaction.
TreesAfterCreate(ts, ns, r) == Append(ts, TreeRow(r, Len(ns) + 1))
NodesAfterCreate(ts, ns, rootNode) ==
    Append(ns, [rootNode EXCEPT !.tree = Len(ts) + 1, !.active = TRUE])
RecipesAfterCreate(rs, ts, r) ==
    [x \in DOMAIN rs |->
        IF x = r /\ ~rs[x].deleted THEN [rs[x] EXCEPT !.treeRef = Len(ts) + 1] ELSE rs[x]]

\* UPDATE recipes SET <core fields> WHERE id = r (soft-deleted rows do not match)
SetFields(rs, r, d) ==
    [x \in DOMAIN rs |->
        IF x = r /\ ~rs[x].deleted THEN [rs[x] EXCEPT !.def = d] ELSE rs[x]]

\* RecipeRepository.UpdateRecipeDef: the core fields and the appended history
\* entry, in one transaction.  The history rows hang off the history id, so
\* the entry is inserted whether or not the recipe row still matches.
UpdateRecipeDefTx(rs, r, d, ty) ==
    LET upd == SetFields(rs, r, d)
    IN  [x \in DOMAIN rs |->
            IF x = r THEN [upd[x] EXCEPT !.hist = Append(@, HistoryEntry(d, ty))] ELSE upd[x]]

\* RecipeService.AssociateTagsWithRecipe: UpdateRecipeTagsAssociation loads
\* the recipe row (a soft-deleted one is not found) and replaces its hashtags.
UpdateRecipeTagsAssociation(rs, r, d) ==
    [x \in DOMAIN rs |->
        IF x = r /\ ~rs[x].deleted THEN [rs[x] EXCEPT !.tags = d] ELSE rs[x]]

\* RecipeRepository.DeleteRecipe: gorm soft-deletes the recipe row only.
DeleteRecipeTx(rs, r) ==
    [x \in DOMAIN rs |-> IF x = r THEN [rs[x] EXCEPT !.deleted = TRUE] ELSE rs[x]]

\* ancestors of a node, as GetNodeAncestors walks them: fuel bounds the walk.
\* end is "root" when the loop broke at a parentless node, "error" when a
\* lookup failed, "diverges" when the loop would still be running after more
\* iterations than there are rows.
RECURSIVE Walk(_, _, _)
Walk(ns, n, fuel) ==
    IF n \notin DOMAIN ns THEN [end |-> "error", chain |-> << >>]
    ELSE IF ns[n].parent = NULL THEN [end |-> "root", chain |-> <<n>>]
    ELSE IF fuel = 0 THEN [end |-> "diverges", chain |-> << >>]
    ELSE LET up == Walk(ns, ns[n].parent, fuel - 1)
         IN  [end   |-> up.end,
              chain |-> IF up.end = "root" THEN Append(up.chain, n) ELSE << >>]

\* A variant of GetNodeAncestors that returns the chain in walk order, the
\* node first and the root last.
GetNodeAncestors_LeafFirst(ns, n) ==
    LET w == Walk(ns, n, Len(ns))
    IN  [end |-> w.end,
         chain |-> [i \in 1..Len(w.chain) |-> w.chain[Len(w.chain) + 1 - i]]]

\* GetNodeAncestors: root first.
GetNodeAncestors(ns, n) == Walk(ns, n, Len(ns))

\* ------------------------------------------------------------- requests on the store

MaxHist == 2         \* history entries a recipe ever gets

MaxTasks == 1        \* Finish invocations ever started

Tasks == 1..MaxTasks

BranchNames == {"b"}

\* what a text provider can hand back besides complete definitions: a result
\* without a title and a result without an image prompt
NoTitle  == MaxDef + 1
NoPrompt == MaxDef + 2
Results  == Defs \cup {NoTitle, NoPrompt}

\* validateRecipeCoreFields
validateRecipeCoreFields(d) == d \in Defs

\* populateRecipeCoreFields: "" when it returns nil
PopulateError(hist, d) ==
    IF ~hist THEN "populate"
    ELSE IF ~validateRecipeCoreFields(d) THEN "populate"
    ELSE ""

\* where the image sub-task starts: it calls the image provider only if an
\* image was asked for and the result carries an image prompt, else it goes
\* straight to signalling nil.
ImageSpawned(genImage, res) == IF genImage /\ res # NoPrompt THEN "gen" ELSE "send"

NoTask ==
    [flow |-> "none", rid |-> NULL, by |-> NULL, src |-> NULL, ctx |-> << >>,
     genImage |-> FALSE, hist |-> FALSE,
     expired |-> FALSE, res |-> NoDef, par |-> "none", txt |-> "none", terr |-> "",
     img |-> "none", ierr |-> FALSE, out |-> "",
     textOK |-> FALSE, expGen |-> FALSE, imgSet |-> FALSE, imgEarly |-> FALSE,
     imgTimeout |-> FALSE, delErr |-> FALSE]

\* A variant of NewTask whose image sub-task runs from the start.
NewTask_ImageFirst(flow, r, genImage, hist) ==
    [NoTask EXCEPT !.flow = flow, !.rid = r, !.genImage = genImage, !.hist = hist,
                   !.par = "wait_text", !.txt = "gen", !.img = "gen"]

\* FinishRegenerateRecipe / FinishGenerateRecipeWithFork as they start: the
\* parent about to wait on the text channel, the text sub-task about to call
\* the provider, no image sub-task yet.
NewTask(flow, r, genImage, hist) ==
    [NoTask EXCEPT !.flow = flow, !.rid = r, !.genImage = genImage, !.hist = hist,
                   !.par = "wait_text", !.txt = "gen"]

\* history kept with a request: the active node and the fields it found
NoWas == [node |-> NULL, def |-> NoDef]

Idle == [kind |-> "idle", pc |-> "idle", r |-> NULL, n |-> NULL, d |-> NoDef, was |-> NoWas]

\* a new request takes the first free slot (which slot it takes is immaterial).
Free(c) == calls[c] = Idle /\ \A c2 \in Slots : c2 < c => calls[c2] # Idle

\* UpdateRecipeFromNode holds the recipe row from its UPDATE to its commit.
Locked(r) ==
    \E c \in Slots : calls[c].kind = "switch" /\ calls[c].pc = "commit" /\ calls[c].r = r

\* A variant of MigratedNodes that hangs every later node under the root.
MigratedNodes_UnderRoot(ns, t, h, u) ==
    ns \o [i \in 1..Len(h) |->
             NodeRow(t, IF i = 1 THEN NULL ELSE Len(ns) + 1,
                     h[i].resp, h[i].type, "original", u, i = Len(h))]

\* the nodes migrateRecipeToTree creates for a history: a chain in entry
\* order, the last one active.
MigratedNodes(ns, t, h, u) ==
    ns \o [i \in 1..Len(h) |->
             NodeRow(t, IF i = 1 THEN NULL ELSE Len(ns) + i - 1,
                     h[i].resp, h[i].type, "original", u, i = Len(h))]

\* a legacy recipe: two history entries, the fields those of the latest, no tree.
LegacyRecipe ==
    RecipeRow(1, 2, <<HistoryEntry(1, "chat"), HistoryEntry(2, "chat")>>)

Init ==
    /\ recipes = <<LegacyRecipe>>
    /\ trees = << >>
    /\ nodes = << >>
    /\ blobs = {}
    /\ calls = [c \in Slots |-> Idle]
    /\ ret = 0
    /\ err = ""
    /\ lastAct = << >>
    /\ treeFail = {}
    /\ tasks = [t \in Tasks |-> NoTask]

\* createImportedRecipe, first half: the recipe row with its one history entry.
CreateImportedRecipe(c, u, d) ==
    /\ Free(c)
    /\ Len(recipes) < MaxRecipes
    /\ recipes' = Append(recipes, RecipeRow(u, d, <<HistoryEntry(d, "import_link")>>))
    /\ calls' = [calls EXCEPT ![c] = [kind |-> "import", pc |-> "tree",
                                      r |-> Len(recipes) + 1, n |-> NULL, d |-> d,
                                      was |-> NoWas]]
    /\ ret' = 0
    /\ err' = ""
    /\ UNCHANGED <<trees, nodes, blobs, lastAct, treeFail, tasks>>

\* createImportedRecipe, second half: CreateRecipeTree with the root node; a
\* failure is logged and the import still succeeds.
CreateImportedRecipeTree(c, ok) ==
    LET r == calls[c].r
        rootNode == NodeRow(NULL, NULL, calls[c].d, "import_link", "original",
                            recipes[r].owner, TRUE)
    IN  /\ calls[c].kind = "import"
        /\ ~Locked(r)
        /\ IF ok /\ CanCreateTree(trees, r)
           THEN /\ Len(nodes) < MaxNodes
                /\ trees' = TreesAfterCreate(trees, nodes, r)
                /\ nodes' = NodesAfterCreate(trees, nodes, rootNode)
                /\ recipes' = RecipesAfterCreate(recipes, trees, r)
                /\ lastAct' = Append(lastAct, Len(nodes) + 1)
                /\ UNCHANGED treeFail
           ELSE /\ treeFail' = treeFail \cup {r}
                /\ UNCHANGED <<trees, nodes, recipes, lastAct>>
        /\ calls' = [calls EXCEPT ![c] = Idle]
        /\ ret' = 0
        /\ err' = CreateTreeError(trees, r, ok)
        /\ UNCHANGED <<blobs, tasks>>

\* A variant of Selected that does not look at the tree reference.
Selected_AnyTreeRef(rs) == {r \in DOMAIN rs : Visible(rs, r)}

\* MigrateRecipeHistoryToTree: the recipes its query selects, those with a
\* history and an empty tree reference.
Selected(rs) == {r \in DOMAIN rs : Visible(rs, r) /\ rs[r].treeRef = NULL}

\* migrateRecipeToTree on a store S = [recipes, trees, nodes]: nothing for
\* an empty history, nothing when the transaction fails on the unique
\* index, else the tree, the chain of nodes and the recipe's reference.
migrateRecipeToTree(S, r) ==
    IF Len(S.recipes[r].hist) = 0 \/ ~CanCreateTree(S.trees, r) THEN S
    ELSE [recipes |-> RecipesAfterCreate(S.recipes, S.trees, r),
          trees   |-> TreesAfterCreate(S.trees, S.nodes, r),
          nodes   |-> MigratedNodes(S.nodes, Len(S.trees) + 1, S.recipes[r].hist,
                                    S.recipes[r].owner)]

\* the loop of MigrateRecipeHistoryToTree over the recipes it selected, in
\* id order from recipe i on
RECURSIVE MigrateFrom(_, _, _)
MigrateFrom(S, sel, i) ==
    IF i > Len(S.recipes) THEN S
    ELSE MigrateFrom(IF i \in sel THEN migrateRecipeToTree(S, i) ELSE S, sel, i + 1)

\* MigrateRecipeHistoryToTree: one whole run on a store.
MigrateRecipeHistoryToTree(S) == MigrateFrom(S, Selected(S.recipes), 1)

\* migrateRecipeToTree for one recipe MigrateRecipeHistoryToTree selected.
MigrateRecipeToTree(r) ==
    /\ r \in Selected(recipes)
    /\ Len(recipes[r].hist) > 0
    /\ CanCreateTree(trees, r)
    /\ Len(nodes) + Len(recipes[r].hist) <= MaxNodes
    /\ ~Locked(r)
    /\ trees' = TreesAfterCreate(trees, nodes, r)
    /\ nodes' = MigratedNodes(nodes, Len(trees) + 1, recipes[r].hist, recipes[r].owner)
    /\ recipes' = RecipesAfterCreate(recipes, trees, r)
    /\ lastAct' = Append(lastAct, Len(nodes) + Len(recipes[r].hist))
    /\ ret' = 0
    /\ err' = ""
    /\ UNCHANGED <<blobs, calls, treeFail, tasks>>

\* the status a handler of the tree and recipe endpoints answers an error
\* with: 404 and 403 come from the handler's own checks; an error of the
\* service reaches the handler wrapped, so its type switch takes the default.
Status(e) ==
    IF e = "recipe not found" THEN 404
    ELSE IF e = "not owner" THEN 403
    ELSE 500

\* A variant of BranchParentError that accepts a parent from any tree.
BranchParentError_AnyTree(ns, t, p) ==
    IF p \notin DOMAIN ns THEN "get parent node" ELSE ""

\* RecipeTreeService.CreateBranch: the parent node is looked up and must
\* belong to the recipe's tree.
BranchParentError(ns, t, p) ==
    IF p \notin DOMAIN ns THEN "get parent node"
    ELSE IF ns[p].tree # t THEN "parent not in tree"
    ELSE ""

\* RecipeTreeHandler.CreateBranch and RecipeTreeService.CreateBranch.
CreateBranch(u, r, p, b) ==
    LET t == GetTreeByRecipeID(trees, r)
        e == IF ~Visible(recipes, r) THEN "recipe not found"
             ELSE IF recipes[r].owner # u THEN "not owner"
             ELSE IF t = NULL THEN "get tree"
             ELSE BranchParentError(nodes, t, p)
    IN  /\ IF e # ""
           THEN /\ ret' = Status(e)
                /\ UNCHANGED nodes
           ELSE /\ Len(nodes) < MaxNodes
                /\ nodes' = AddNodeToTreeTx(nodes, NodeRow(t, p, NoDef, "", b, u, FALSE), FALSE)
                /\ ret' = 201
        /\ err' = e
        /\ UNCHANGED <<recipes, trees, blobs, calls, lastAct, treeFail, tasks>>

\* RecipeTreeHandler.SetActiveNode up to and including the repository's
\* SetActiveNode transaction (the first of the service's three store calls).
\* With track, the request remembers what it found.
SetActiveNodeCall(c, u, r, n, track) ==
    LET t == GetTreeByRecipeID(trees, r)
        e == IF ~Visible(recipes, r) THEN "recipe not found"
             ELSE IF recipes[r].owner # u THEN "not owner"
             ELSE IF t = NULL THEN "set active node: get tree"
             ELSE IF ~NodeInTree(nodes, t, n) THEN "set active node: not in tree"
             ELSE ""
    IN  /\ Free(c)
        /\ IF e # ""
           THEN /\ ret' = Status(e)
                /\ UNCHANGED <<nodes, lastAct, calls>>
           ELSE /\ nodes' = SetActiveNodeTx(nodes, t, n)
                /\ lastAct' = [lastAct EXCEPT ![t] = n]
                /\ calls' = [calls EXCEPT ![c] =
                      [kind |-> "switch", pc |-> "get_node", r |-> r, n |-> n, d |-> NoDef,
                       was |-> IF track THEN [node |-> GetActiveNode(nodes, t),
                                              def |-> recipes[r].def]
                               ELSE NoWas]]
                /\ ret' = 0
        /\ err' = e
        /\ UNCHANGED <<recipes, trees, blobs, treeFail, tasks>>

SetActiveNodeBegin(c, u, r, n) == SetActiveNodeCall(c, u, r, n, FALSE)

SetActiveNodeBeginTracked(c, u, r, n) == SetActiveNodeCall(c, u, r, n, TRUE)

\* RecipeTreeService.SetActiveNode after the activation: GetNodeByID, then
\* UpdateRecipeFromNode only if the node carries a response.  Inside
\* UpdateRecipeFromNode the field UPDATE takes the recipe row, and the nested
\* SetActiveNode runs on the repository's own handle, so it commits by itself.
SetActiveNodeMaterialize(c, ok) ==
    LET r == calls[c].r
        n == calls[c].n
    IN  /\ calls[c].kind = "switch"
        /\ calls[c].pc = "get_node"
        /\ IF nodes[n].resp = NoDef
           THEN /\ ret' = 200
                /\ calls' = [calls EXCEPT ![c] = Idle]
                /\ UNCHANGED <<nodes, lastAct>>
           ELSE /\ ~Locked(r)
                /\ IF ok
                   THEN /\ nodes' = SetActiveNodeTx(nodes, nodes[n].tree, n)
                        /\ lastAct' = [lastAct EXCEPT ![nodes[n].tree] = n]
                        /\ calls' = [calls EXCEPT ![c].pc = "commit", ![c].d = nodes[n].resp]
                        /\ ret' = 0
                   ELSE /\ ret' = 500
                        /\ calls' = [calls EXCEPT ![c] = Idle]
                        /\ UNCHANGED <<nodes, lastAct>>
        /\ err' = IF ret' = 500 THEN "update recipe from node" ELSE ""
        /\ UNCHANGED <<recipes, trees, blobs, treeFail, tasks>>

\* UpdateRecipeFromNode: the outer transaction commits the fields, or rolls back.
UpdateRecipeFromNodeCommit(c, ok) ==
    /\ calls[c].kind = "switch"
    /\ calls[c].pc = "commit"
    /\ recipes' = IF ok THEN SetFields(recipes, calls[c].r, calls[c].d) ELSE recipes
    /\ ret' = IF ok THEN 200 ELSE 500
    /\ err' = IF ok THEN "" ELSE "update recipe from node"
    /\ calls' = [calls EXCEPT ![c] = Idle]
    /\ UNCHANGED <<trees, nodes, blobs, lastAct, treeFail, tasks>>

\* FinishRegenerateRecipe's commit, for a recipe value whose history is
\* loaded: UpdateRecipeDef.  The row may have been deleted since the value was
\* loaded.  On failure the parent deletes the recipe.
RegenUpdateRecipeDef(c, r, d, ok) ==
    /\ Free(c)
    /\ Len(recipes[r].hist) < MaxHist
    /\ ~Locked(r)
    /\ recipes' = IF ok THEN UpdateRecipeDefTx(recipes, r, d, "chat") ELSE recipes
    /\ calls' = [calls EXCEPT ![c] = [kind |-> "regen", pc |-> IF ok THEN "tree" ELSE "delete",
                                      r |-> r, n |-> NULL, d |-> d, was |-> NoWas]]
    /\ ret' = 0
    /\ err' = IF ok THEN "" ELSE "update recipe def"
    /\ UNCHANGED <<trees, nodes, blobs, lastAct, treeFail, tasks>>

\* FinishRegenerateRecipe: AssociateTagsWithRecipe, then GetTreeByRecipeID
\* and GetActiveNode; either lookup failing ends the tree write.
RegenGetActiveNode(c) ==
    LET r == calls[c].r
        t == GetTreeByRecipeID(trees, r)
    IN  /\ calls[c].kind = "regen"
        /\ calls[c].pc = "tree"
        /\ IF t = NULL
           THEN calls' = [calls EXCEPT ![c] = Idle] /\ UNCHANGED treeFail
           ELSE IF GetActiveNode(nodes, t) = NULL
           THEN calls' = [calls EXCEPT ![c] = Idle] /\ treeFail' = treeFail \cup {r}
           ELSE /\ calls' = [calls EXCEPT ![c].pc = "add", ![c].n = GetActiveNode(nodes, t)]
                /\ UNCHANGED treeFail
        /\ recipes' = UpdateRecipeTagsAssociation(recipes, r, calls[c].d)
        /\ ret' = 0
        /\ err' = IF t = NULL THEN "get tree"
                  ELSE IF GetActiveNode(nodes, t) = NULL THEN "get active node"
                  ELSE ""
        /\ UNCHANGED <<trees, nodes, blobs, lastAct, tasks>>

\* FinishRegenerateRecipe: AddNodeToTree(newNode, true) under the node read
\* as active; a failure is logged.
RegenAddNodeToTree(c, ok) ==
    LET r == calls[c].r
        p == calls[c].n
        newNode == NodeRow(nodes[p].tree, p, calls[c].d, "regen_chat", nodes[p].branch,
                           recipes[r].owner, FALSE)
    IN  /\ calls[c].kind = "regen"
        /\ calls[c].pc = "add"
        /\ IF ok
           THEN /\ Len(nodes) < MaxNodes
                /\ nodes' = AddNodeToTreeTx(nodes, newNode, TRUE)
                /\ lastAct' = [lastAct EXCEPT ![nodes[p].tree] = Len(nodes) + 1]
                /\ UNCHANGED treeFail
           ELSE /\ treeFail' = treeFail \cup {r}
                /\ UNCHANGED <<nodes, lastAct>>
        /\ calls' = [calls EXCEPT ![c] = Idle]
        /\ ret' = 0
        /\ err' = IF ok THEN "" ELSE "add node"
        /\ UNCHANGED <<recipes, trees, blobs, tasks>>

\* FinishRegenerateRecipe: the parent's DeleteRecipe after a failed commit.
RegenDeleteRecipe(c) ==
    /\ calls[c].kind = "regen"
    /\ calls[c].pc = "delete"
    /\ ~Locked(calls[c].r)
    /\ recipes' = DeleteRecipeTx(recipes, calls[c].r)
    /\ blobs' = blobs \ {calls[c].r}
    /\ calls' = [calls EXCEPT ![c] = Idle]
    /\ ret' = 0
    /\ err' = ""
    /\ UNCHANGED <<trees, nodes, lastAct, treeFail, tasks>>

\* RecipeHandler.DeleteRecipe: the owner deletes a recipe.
DeleteRecipeHandler(u, r) ==
    /\ IF ~Visible(recipes, r)
       THEN ret' = 404 /\ err' = "recipe not found" /\ UNCHANGED <<recipes, blobs>>
       ELSE IF recipes[r].owner # u
       THEN ret' = 403 /\ err' = "not owner" /\ UNCHANGED <<recipes, blobs>>
       ELSE /\ ~Locked(r)
            /\ recipes' = DeleteRecipeTx(recipes, r)
            /\ blobs' = blobs \ {r}
            /\ ret' = 200
            /\ err' = ""
    /\ UNCHANGED <<trees, nodes, calls, lastAct, treeFail, tasks>>

Next ==
    \/ \E c \in Slots, u \in Users, d \in Defs : CreateImportedRecipe(c, u, d)
    \/ \E c \in Slots, ok \in BOOLEAN : CreateImportedRecipeTree(c, ok)
    \/ \E r \in RecipeIds : MigrateRecipeToTree(r)
    \/ \E u \in Users, r \in 1..MaxRecipes, p \in 1..MaxNodes, b \in BranchNames :
          CreateBranch(u, r, p, b)
    \/ \E c \in Slots, u \in Users, r \in 1..MaxRecipes, n \in 1..MaxNodes :
          SetActiveNodeBegin(c, u, r, n)
    \/ \E c \in Slots, ok \in BOOLEAN : SetActiveNodeMaterialize(c, ok)
    \/ \E c \in Slots, ok \in BOOLEAN : UpdateRecipeFromNodeCommit(c, ok)
    \/ \E c \in Slots, r \in RecipeIds, d \in Defs, ok \in BOOLEAN :
          RegenUpdateRecipeDef(c, r, d, ok)
    \/ \E c \in Slots : RegenGetActiveNode(c)
    \/ \E c \in Slots, ok \in BOOLEAN : RegenAddNodeToTree(c, ok)
    \/ \E c \in Slots : RegenDeleteRecipe(c)
    \/ \E u \in Users, r \in 1..MaxRecipes : DeleteRecipeHandler(u, r)

Spec == Init /\ [][Next]_vars

\* ------------------------------------------------------------- two trees side by side

\* an imported recipe as createImportedRecipe leaves it, with tree t
ImportedRecipe(u, d, t) ==
    [RecipeRow(u, d, <<HistoryEntry(d, "import_link")>>) EXCEPT !.treeRef = t]

\* a store after two imports: two recipes, each with its one-node tree
InitTwoTrees ==
    /\ \E u1, u2 \in Users, d1, d2 \in Defs :
          /\ recipes = <<ImportedRecipe(u1, d1, 1), ImportedRecipe(u2, d2, 2)>>
          /\ nodes = <<NodeRow(1, NULL, d1, "import_link", "original", u1, TRUE),
                       NodeRow(2, NULL, d2, "import_link", "original", u2, TRUE)>>
    /\ trees = <<TreeRow(1, 1), TreeRow(2, 2)>>
    /\ blobs = {}
    /\ calls = [c \in Slots |-> Idle]
    /\ ret = 0
    /\ err = ""
    /\ lastAct = <<1, 2>>
    /\ treeFail = {}
    /\ tasks = [t \in Tasks |-> NoTask]

NextTwoTrees ==
    \/ \E u \in Users, r \in 1..MaxRecipes, p \in 1..MaxNodes, b \in BranchNames :
          CreateBranch(u, r, p, b)
    \/ \E c \in Slots, u \in Users, r \in 1..MaxRecipes, n \in 1..MaxNodes :
          SetActiveNodeBeginTracked(c, u, r, n)
    \/ \E c \in Slots, ok \in BOOLEAN : SetActiveNodeMaterialize(c, ok)
    \/ \E c \in Slots, ok \in BOOLEAN : UpdateRecipeFromNodeCommit(c, ok)
    \/ \E u \in Users, r \in 1..MaxRecipes : DeleteRecipeHandler(u, r)

SpecTwoTrees == InitTwoTrees /\ [][NextTwoTrees]_vars

\* ------------------------------------------------------------- the one-time migration

MaxLegacy == 3       \* history entries of a recipe from before the edit tree

\* the histories a recipe can have: up to MaxLegacy chat entries
LegacyHistoriesUpTo(k) ==
    UNION {[1..n -> {HistoryEntry(d, "chat") : d \in Defs}] : n \in 0..k}

\* a recipe from before the edit tree: no tree, the fields those of its
\* latest history entry
LegacyRecipeWith(u, h) ==
    RecipeRow(u, IF h = << >> THEN NoDef ELSE h[Len(h)].resp, h)

\* a store from before the edit tree: two recipes with their histories
InitMigrate ==
    /\ \E u1, u2 \in Users, h1 \in LegacyHistoriesUpTo(MaxLegacy), h2 \in LegacyHistoriesUpTo(1) :
          recipes = <<LegacyRecipeWith(u1, h1), LegacyRecipeWith(u2, h2)>>
    /\ trees = << >>
    /\ nodes = << >>
    /\ blobs = {}
    /\ calls = [c \in Slots |-> Idle]
    /\ ret = 0
    /\ err = ""
    /\ lastAct = << >>
    /\ treeFail = {}
    /\ tasks = [t \in Tasks |-> NoTask]

\* migrateRecipeToTree for one recipe of the store from before the edit tree
MigrateLegacy(r) ==
    /\ r \in Selected(recipes)
    /\ Len(recipes[r].hist) > 0
    /\ CanCreateTree(trees, r)
    /\ Len(nodes) + Len(recipes[r].hist) <= MaxLegacy + 1
    /\ trees' = TreesAfterCreate(trees, nodes, r)
    /\ nodes' = MigratedNodes(nodes, Len(trees) + 1, recipes[r].hist, recipes[r].owner)
    /\ recipes' = RecipesAfterCreate(recipes, trees, r)
    /\ lastAct' = Append(lastAct, Len(nodes) + Len(recipes[r].hist))
    /\ ret' = 0
    /\ err' = ""
    /\ UNCHANGED <<blobs, calls, treeFail, tasks>>

NextMigrate == \E r \in RecipeIds : MigrateLegacy(r)

SpecMigrate == InitMigrate /\ [][NextMigrate]_vars

\* ------------------------------------------------------------- the generation orchestrator

\* the state the store is in once the legacy recipe has been migrated
MigratedLegacy == [LegacyRecipe EXCEPT !.treeRef = 1]

\* the histories the legacy recipe can have had when it was migrated: both
\* entries, or the latest one only
LegacyHistories == {LegacyRecipe.hist, SubSeq(LegacyRecipe.hist, 2, 2)}

InitFinish ==
    /\ \E h \in LegacyHistories :
          /\ recipes = <<[MigratedLegacy EXCEPT !.hist = h]>>
          /\ nodes = MigratedNodes(<< >>, 1, h, LegacyRecipe.owner)
          /\ lastAct = <<Len(h)>>
    /\ trees = <<TreeRow(1, 1)>>
    /\ blobs = {}
    /\ calls = [c \in Slots |-> Idle]
    /\ ret = 0
    /\ err = ""
    /\ treeFail = {}
    /\ tasks = [t \in Tasks |-> NoTask]

\* the content of an ai.Message: a prompt, a summary, the JSON of a recipe
\* definition, or the fixed sentence that stands for a manual entry
Content(kind, v) == [kind |-> kind, v |-> v]

\* json.Marshal(currentDef)
Marshal(d) == Content("json", d)

\* historyEntriesToMessages from entry i on
RECURSIVE MessagesFrom(_, _, _)
MessagesFrom(entries, currentDef, i) ==
    IF i > Len(entries) THEN << >>
    ELSE LET entry == entries[i]
             last  == (i = Len(entries))
             rest  == MessagesFrom(entries, currentDef, i + 1)
         IN  IF entry.type = "user_input" /\ ~last THEN rest
             ELSE <<[role |-> "user",
                     content |-> IF entry.type = "user_input" THEN Content("fixed", 0)
                                 ELSE Content("prompt", entry.prompt)],
                    [role |-> "assistant",
                     content |-> IF last THEN Marshal(currentDef)
                                 ELSE Content("summary", entry.summary)]>> \o rest

\* historyEntriesToMessages
historyEntriesToMessages(entries, currentDef) == MessagesFrom(entries, currentDef, 1)

\* a Finish invocation takes the first unused task record
FreeTask(t) == tasks[t] = NoTask /\ \A t2 \in Tasks : t2 < t => tasks[t2] # NoTask

\* A variant of InitRegenerateError without the ownership check.
InitRegenerateError_AnyCaller(rs, u, hasPers, r) ==
    IF ~hasPers THEN "personalization"
    ELSE IF ~Visible(rs, r) THEN "get existing recipe"
    ELSE ""

\* InitRegenerateRecipe: the checks made before Finish is started.
InitRegenerateError(rs, u, hasPers, r) ==
    IF ~hasPers THEN "personalization"
    ELSE IF ~Visible(rs, r) THEN "get existing recipe"
    ELSE IF rs[r].owner # u THEN "unauthorized"
    ELSE ""

\* InitGenerateRecipeWithFork: the checks made before Finish is started; ok
\* is whether CreateRecipe stores the new row.
InitForkError(rs, hasPers, src, ok) ==
    IF ~hasPers THEN "personalization"
    ELSE IF ~Visible(rs, src) THEN "get existing recipe"
    ELSE IF ~ok THEN "save recipe"
    ELSE ""

\* RecipeHandler.RegenerateRecipe and InitRegenerateRecipe: every error is
\* answered 500; on success Finish is started with the recipe value
\* GetRecipeByID returned, which carries no history.
InitRegenerateRecipe(t, u, hasPers, r, genImage) ==
    /\ FreeTask(t)
    /\ IF InitRegenerateError(recipes, u, hasPers, r) = ""
       THEN /\ tasks' = [tasks EXCEPT ![t] =
                            [NewTask("regen", r, genImage, FALSE) EXCEPT !.by = u, !.ctx = << >>]]
            /\ ret' = 200
       ELSE /\ ret' = 500
            /\ UNCHANGED tasks
    /\ err' = InitRegenerateError(recipes, u, hasPers, r)
    /\ UNCHANGED <<recipes, trees, nodes, blobs, calls, lastAct, treeFail>>

\* RecipeHandler.GenerateRecipeWithFork and InitGenerateRecipeWithFork: a new
\* recipe row with an empty history, owned by the caller; Finish builds the
\* provider's context from the value of that new recipe.
InitGenerateRecipeWithFork(t, u, hasPers, src, genImage, ok) ==
    /\ FreeTask(t)
    /\ Len(recipes) < MaxRecipes
    /\ IF InitForkError(recipes, hasPers, src, ok) = ""
       THEN /\ recipes' = Append(recipes, RecipeRow(u, NoDef, << >>))
            /\ tasks' = [tasks EXCEPT ![t] =
                            [NewTask("fork", Len(recipes) + 1, genImage, TRUE)
                                EXCEPT !.by = u, !.src = src,
                                       !.ctx = historyEntriesToMessages(
                                                  RecipeRow(u, NoDef, << >>).hist,
                                                  RecipeRow(u, NoDef, << >>).def)]]
            /\ ret' = 200
       ELSE /\ ret' = 500
            /\ UNCHANGED <<recipes, tasks>>
    /\ err' = InitForkError(recipes, hasPers, src, ok)
    /\ UNCHANGED <<trees, nodes, blobs, calls, lastAct, treeFail>>

\* the shared deadline of a Finish invocation passes
Expire(t) ==
    /\ tasks[t].par \in {"wait_text", "wait_image"}
    /\ ~tasks[t].expired
    /\ tasks' = [tasks EXCEPT ![t].expired = TRUE,
                              ![t].expGen = (tasks[t].txt = "gen")]
    /\ ret' = 0
    /\ err' = ""
    /\ UNCHANGED <<recipes, trees, nodes, blobs, calls, lastAct, treeFail>>

\* text sub-task: the provider call returns, with an error (res = NoDef) or
\* with a result; on a result the image sub-task is spawned.
TextGenerate(t, res) ==
    /\ tasks[t].txt = "gen"
    /\ tasks' = [tasks EXCEPT ![t] =
          IF res = NoDef
          THEN [@ EXCEPT !.txt = "send", !.terr = "provider"]
          ELSE [@ EXCEPT !.txt = "commit", !.res = res,
                         !.textOK = ~tasks[t].expired,
                         !.img = ImageSpawned(tasks[t].genImage, res)]]
    /\ ret' = 0
    /\ err' = ""
    /\ UNCHANGED <<recipes, trees, nodes, blobs, calls, lastAct, treeFail>>

\* A variant of NextStep that writes the tree before the hashtags.
NextStep_TreeFirst(pc) ==
    IF pc = "commit" THEN "tree" ELSE IF pc = "tree" THEN "tags" ELSE "send"

\* text sub-task: the order of its writes: UpdateRecipeDef, then
\* AssociateTagsWithRecipe, then the tree write, then the signal.
NextStep(pc) ==
    IF pc = "commit" THEN "tags" ELSE IF pc = "tags" THEN "tree" ELSE "send"

\* A variant of TreeWriteSignal that reports a failed tree write.
TreeWriteSignal_Fatal(e) == e

\* text sub-task: what it signals after the tree write: nil, the error of
\* the tree write having been logged.
TreeWriteSignal(e) == ""

\* text sub-task: populateRecipeCoreFields, then UpdateRecipeDef.
TextCommit(t, ok) ==
    LET r == tasks[t].rid
        e == PopulateError(tasks[t].hist, tasks[t].res)
    IN  /\ tasks[t].txt = "commit"
        /\ IF e # ""
           THEN /\ tasks' = [tasks EXCEPT ![t].txt = "send", ![t].terr = e]
                /\ UNCHANGED recipes
           ELSE IF ok
           THEN /\ recipes' = UpdateRecipeDefTx(recipes, r, tasks[t].res, "chat")
                /\ tasks' = [tasks EXCEPT ![t].txt = NextStep("commit")]
           ELSE /\ tasks' = [tasks EXCEPT ![t].txt = "send", ![t].terr = "store"]
                /\ UNCHANGED recipes
        /\ ret' = 0
        /\ err' = ""
        /\ UNCHANGED <<trees, nodes, blobs, calls, lastAct, treeFail>>

\* text sub-task: AssociateTagsWithRecipe with the result's hashtags; a
\* failure is logged.
TextTags(t, ok) ==
    /\ tasks[t].txt = "tags"
    /\ recipes' = IF ok THEN UpdateRecipeTagsAssociation(recipes, tasks[t].rid, tasks[t].res)
                  ELSE recipes
    /\ tasks' = [tasks EXCEPT ![t].txt = NextStep("tags")]
    /\ ret' = 0
    /\ err' = IF ok /\ Visible(recipes, tasks[t].rid) THEN "" ELSE "associate tags"
    /\ UNCHANGED <<trees, nodes, blobs, calls, lastAct, treeFail>>

\* text sub-task: the tree write.  Fork: CreateRecipeTree with a root node.
\* Regenerate: a node under the active node, appended as active.  A failure
\* is logged; the sub-task then signals success.
TextTree(t, ok) ==
    LET r  == tasks[t].rid
        d  == tasks[t].res
        tr == GetTreeByRecipeID(trees, r)
        a  == GetActiveNode(nodes, tr)
    IN  /\ tasks[t].txt = "tree"
        /\ IF tasks[t].flow = "fork"
           THEN IF ok /\ CanCreateTree(trees, r)
                THEN /\ Len(nodes) < MaxNodes
                     /\ trees' = TreesAfterCreate(trees, nodes, r)
                     /\ nodes' = NodesAfterCreate(trees, nodes,
                                    NodeRow(NULL, NULL, d, "fork", "original",
                                            recipes[r].owner, TRUE))
                     /\ recipes' = RecipesAfterCreate(recipes, trees, r)
                     /\ lastAct' = Append(lastAct, Len(nodes) + 1)
                     /\ UNCHANGED treeFail
                ELSE /\ treeFail' = treeFail \cup {r}
                     /\ UNCHANGED <<trees, nodes, recipes, lastAct>>
           ELSE IF tr # NULL /\ a # NULL /\ ok
                THEN /\ Len(nodes) < MaxNodes
                     /\ nodes' = AddNodeToTreeTx(nodes,
                                    NodeRow(tr, a, d, "regen_chat", nodes[a].branch,
                                            recipes[r].owner, FALSE), TRUE)
                     /\ lastAct' = [lastAct EXCEPT ![tr] = Len(nodes) + 1]
                     /\ UNCHANGED <<trees, recipes, treeFail>>
                ELSE /\ treeFail' = IF tr = NULL THEN treeFail ELSE treeFail \cup {r}
                     /\ UNCHANGED <<trees, nodes, recipes, lastAct>>
        /\ err' = IF tasks[t].flow = "fork" THEN CreateTreeError(trees, r, ok)
                  ELSE IF tr = NULL THEN "get tree"
                  ELSE IF a = NULL THEN "get active node"
                  ELSE IF ~ok THEN "add node"
                  ELSE ""
        /\ tasks' = [tasks EXCEPT ![t].txt = NextStep("tree"),
                                  ![t].terr = TreeWriteSignal(err')]
        /\ ret' = 0
        /\ UNCHANGED <<blobs, calls>>

\* parent: the select on the text channel takes the sub-task's signal.  An
\* error goes to the compensating delete; nil ends Finish unless an image
\* was asked for.
ParentRecvText(t) ==
    /\ tasks[t].par = "wait_text"
    /\ tasks[t].txt = "send"
    /\ tasks' = [tasks EXCEPT ![t] =
          IF tasks[t].terr # ""
          THEN [@ EXCEPT !.txt = "done", !.par = "delete", !.out = "DELETED"]
          ELSE IF ~tasks[t].genImage
          THEN [@ EXCEPT !.txt = "done", !.par = "done", !.out = "COMMITTED"]
          ELSE [@ EXCEPT !.txt = "done", !.par = "wait_image"]]
    /\ ret' = 0
    /\ err' = ""
    /\ UNCHANGED <<recipes, trees, nodes, blobs, calls, lastAct, treeFail>>

\* parent: the select on the text channel takes ctx.Done().
ParentTimeoutText(t) ==
    /\ tasks[t].par = "wait_text"
    /\ tasks[t].expired
    /\ tasks' = [tasks EXCEPT ![t].par = "delete", ![t].out = "DELETED"]
    /\ ret' = 0
    /\ err' = ""
    /\ UNCHANGED <<recipes, trees, nodes, blobs, calls, lastAct, treeFail>>

\* A variant of ParentAfterDelete that runs a failed delete again.
ParentAfterDelete_Retry(ok) == IF ok THEN "delete_s3" ELSE "delete"

\* parent: what follows the repository delete: the blob delete, or, on an
\* error, the log line and the return.
ParentAfterDelete(ok) == IF ok THEN "delete_s3" ELSE "done"

\* parent: RecipeService.DeleteRecipe, the repository delete; on an error
\* the blob is left alone and Finish returns.
ParentDelete(t, ok) ==
    /\ tasks[t].par = "delete"
    /\ recipes' = IF ok THEN DeleteRecipeTx(recipes, tasks[t].rid) ELSE recipes
    /\ tasks' = [tasks EXCEPT ![t].par = ParentAfterDelete(ok),
                              ![t].delErr = ~ok]
    /\ ret' = 0
    /\ err' = ""
    /\ UNCHANGED <<trees, nodes, blobs, calls, lastAct, treeFail>>

\* parent: RecipeService.DeleteRecipe, the blob delete; then Finish returns,
\* having logged the error if there was one.
ParentDeleteS3(t, ok) ==
    /\ tasks[t].par = "delete_s3"
    /\ blobs' = IF ok THEN blobs \ {tasks[t].rid} ELSE blobs
    /\ tasks' = [tasks EXCEPT ![t].par = "done", ![t].delErr = ~ok]
    /\ ret' = 0
    /\ err' = ""
    /\ UNCHANGED <<recipes, trees, nodes, calls, lastAct, treeFail>>

\* image sub-task: the image provider returns.
ImageGenerate(t, ok) ==
    /\ tasks[t].img = "gen"
    /\ tasks' = [tasks EXCEPT ![t].img = IF ok THEN "upload" ELSE "send",
                              ![t].ierr = ~ok]
    /\ ret' = 0
    /\ err' = ""
    /\ UNCHANGED <<recipes, trees, nodes, blobs, calls, lastAct, treeFail>>

\* image sub-task: uploadRecipeImage puts the blob under the recipe's key.
ImageUpload(t, ok) ==
    /\ tasks[t].img = "upload"
    /\ blobs' = IF ok THEN blobs \cup {tasks[t].rid} ELSE blobs
    /\ tasks' = [tasks EXCEPT ![t].img = IF ok THEN "persist" ELSE "send",
                              ![t].ierr = ~ok]
    /\ ret' = 0
    /\ err' = ""
    /\ UNCHANGED <<recipes, trees, nodes, calls, lastAct, treeFail>>

\* UPDATE recipes SET image_url = ... WHERE id = r (soft-deleted rows do not match)
UpdateRecipeImageURLTx(rs, r) ==
    [x \in DOMAIN rs |->
        IF x = r /\ ~rs[x].deleted THEN [rs[x] EXCEPT !.image = TRUE] ELSE rs[x]]

\* image sub-task: UpdateRecipeImageURL, then the signal is ready to send.
ImagePersist(t, ok) ==
    /\ tasks[t].img = "persist"
    /\ recipes' = IF ok THEN UpdateRecipeImageURLTx(recipes, tasks[t].rid) ELSE recipes
    /\ tasks' = [tasks EXCEPT ![t].img = "send", ![t].ierr = ~ok,
                              ![t].imgSet = ok /\ Visible(recipes, tasks[t].rid),
                              ![t].imgEarly = ok /\ tasks[t].txt = "commit"]
    /\ ret' = 0
    /\ err' = ""
    /\ UNCHANGED <<trees, nodes, blobs, calls, lastAct, treeFail>>

\* A variant of ParentAfterImage that treats an image error like a text error.
ParentAfterImage_Fatal(failed) == IF failed THEN "delete" ELSE "done"

\* parent: what follows the image signal: Finish returns either way.
ParentAfterImage(failed) == "done"

\* parent: the select on the image channel takes the sub-task's signal.
ParentRecvImage(t) ==
    /\ tasks[t].par = "wait_image"
    /\ tasks[t].img = "send"
    /\ tasks' = [tasks EXCEPT ![t].img = "done",
                              ![t].par = ParentAfterImage(tasks[t].ierr),
                              ![t].out = IF ParentAfterImage(tasks[t].ierr) = "done"
                                         THEN "COMMITTED" ELSE "DELETED"]
    /\ ret' = 0
    /\ err' = ""
    /\ UNCHANGED <<recipes, trees, nodes, blobs, calls, lastAct, treeFail>>

\* parent: the select on the image channel takes ctx.Done(); the image
\* sub-task is no longer awaited.
ParentTimeoutImage(t) ==
    /\ tasks[t].par = "wait_image"
    /\ tasks[t].expired
    /\ tasks' = [tasks EXCEPT ![t].par = "done", ![t].out = "COMMITTED",
                              ![t].imgTimeout = TRUE]
    /\ ret' = 0
    /\ err' = ""
    /\ UNCHANGED <<recipes, trees, nodes, blobs, calls, lastAct, treeFail>>

NextFinish ==
    \/ \E t \in Tasks, u \in Users, hasPers \in BOOLEAN, r \in 1..MaxRecipes, g \in BOOLEAN :
          InitRegenerateRecipe(t, u, hasPers, r, g)
    \/ \E t \in Tasks, u \in Users, hasPers \in BOOLEAN, r \in 1..MaxRecipes, g \in BOOLEAN,
          ok \in BOOLEAN :
          InitGenerateRecipeWithFork(t, u, hasPers, r, g, ok)
    \/ \E t \in Tasks : Expire(t)
    \/ \E t \in Tasks, res \in Results \cup {NoDef} : TextGenerate(t, res)
    \/ \E t \in Tasks, ok \in BOOLEAN : TextCommit(t, ok)
    \/ \E t \in Tasks, ok \in BOOLEAN : TextTags(t, ok)
    \/ \E t \in Tasks, ok \in BOOLEAN : TextTree(t, ok)
    \/ \E t \in Tasks : ParentRecvText(t)
    \/ \E t \in Tasks : ParentTimeoutText(t)
    \/ \E t \in Tasks, ok \in BOOLEAN : ParentDelete(t, ok)
    \/ \E t \in Tasks, ok \in BOOLEAN : ParentDeleteS3(t, ok)
    \/ \E t \in Tasks, ok \in BOOLEAN : ImageGenerate(t, ok)
    \/ \E t \in Tasks, ok \in BOOLEAN : ImageUpload(t, ok)
    \/ \E t \in Tasks, ok \in BOOLEAN : ImagePersist(t, ok)
    \/ \E t \in Tasks : ParentRecvImage(t)
    \/ \E t \in Tasks : ParentTimeoutImage(t)
    \/ \E c \in Slots, u \in Users, d \in Defs : CreateImportedRecipe(c, u, d)
    \/ \E c \in Slots, ok \in BOOLEAN : CreateImportedRecipeTree(c, ok)
    \/ \E r \in RecipeIds : MigrateRecipeToTree(r)

SpecFinish == InitFinish /\ [][NextFinish]_vars

\* what the scheduling guarantees: the deadline's timer fires, and the
\* parent, whose select is ready once the deadline has passed, takes it and
\* runs its store calls to their return.  Nothing is assumed of the text
\* and image providers, nor of the sub-tasks.
FairFinish ==
    \A t \in Tasks :
        /\ WF_vars(Expire(t))
        /\ WF_vars(ParentTimeoutText(t))
        /\ WF_vars(ParentTimeoutImage(t))
        /\ WF_vars(\E ok \in BOOLEAN : ParentDelete(t, ok))
        /\ WF_vars(\E ok \in BOOLEAN : ParentDeleteS3(t, ok))

SpecFinishFair == SpecFinish /\ FairFinish

\* ------------------------------------------------------------- the conversation context

MaxTurns == 3        \* entries of a history handed to historyEntriesToMessages
MaxText  == 2        \* distinct prompts, and distinct summaries

\* models.RecipeHistoryEntry with the columns the context is built from
Turn(p, d, sm, ty) == [prompt |-> p, resp |-> d, summary |-> sm, type |-> ty]

Turns == {Turn(p, d, sm, ty) : p \in 1..MaxText, d \in Defs, sm \in 1..MaxText,
                                ty \in {"chat", "user_input"}}

\* a recipe value with its history loaded, as Finish takes it
InitContext ==
    /\ \E u \in Users, d \in Defs, k \in 0..MaxTurns : \E h \in [1..k -> Turns] :
          recipes = <<RecipeRow(u, d, h)>>
    /\ trees = << >>
    /\ nodes = << >>
    /\ blobs = {}
    /\ calls = [c \in Slots |-> Idle]
    /\ ret = 0
    /\ err = ""
    /\ lastAct = << >>
    /\ treeFail = {}
    /\ tasks = [t \in Tasks |-> NoTask]

\* FinishRegenerateRecipe as it starts for a recipe value whose history is
\* loaded: the request's ExistingHistory is built from the entries and the
\* recipe's current definition.
FinishRegenerateRecipeStart(t, genImage) ==
    /\ FreeTask(t)
    /\ tasks' = [tasks EXCEPT ![t] =
                    [NewTask("regen", 1, genImage, TRUE)
                        EXCEPT !.by = recipes[1].owner,
                               !.ctx = historyEntriesToMessages(recipes[1].hist, recipes[1].def)]]
    /\ ret' = 0
    /\ err' = ""
    /\ UNCHANGED <<recipes, trees, nodes, blobs, calls, lastAct, treeFail>>

NextContext == \E t \in Tasks, g \in BOOLEAN : FinishRegenerateRecipeStart(t, g)

SpecContext == InitContext /\ [][NextContext]_vars

\* ------------------------------------------------------------- reading the tree back

MaxChain == 5        \* nodes of a tree built by appending

\* GetTreeWithNodes: the ids of a tree's nodes in creation order.
GetTreeWithNodes(ns, t) ==
    SelectSeq([i \in 1..Len(ns) |-> i], LAMBDA m : ns[m].tree = t)

\* rebuildNode: the node's response with, nested in creation order, the
\* responses of the nodes whose parent it is.
RECURSIVE rebuildNode(_, _, _)
rebuildNode(ns, allNodes, n) ==
    LET kids == SelectSeq(allNodes, LAMBDA m : ns[m].parent = n)
    IN  [id |-> n, active |-> ns[n].active,
         children |-> [i \in 1..Len(kids) |-> rebuildNode(ns, allNodes, kids[i])]]

\* A variant of GetTree that returns the root as the first pass over the
\* nodes linked it: its children copied before their own children were linked.
GetTree_FirstPass(ts, ns, r) ==
    LET t        == GetTreeByRecipeID(ts, r)
        allNodes == GetTreeWithNodes(ns, t)
        kids     == SelectSeq(allNodes, LAMBDA m : ns[m].parent = ts[t].root)
    IN  IF t = NULL THEN [error |-> "get tree", rootNode |-> << >>]
        ELSE [error |-> "",
              rootNode |-> IF \E i \in DOMAIN allNodes : allNodes[i] = ts[t].root
                           THEN <<[id |-> ts[t].root, active |-> ns[ts[t].root].active,
                                   children |-> [i \in 1..Len(kids) |->
                                       [id |-> kids[i], active |-> ns[kids[i]].active,
                                        children |-> << >>]]]>>
                           ELSE << >>]

\* RecipeTreeService.GetTree: the nested response; rootNode holds the root's
\* response, or nothing when the tree's root reference matches none of its nodes.
GetTree(ts, ns, r) ==
    LET t        == GetTreeByRecipeID(ts, r)
        allNodes == GetTreeWithNodes(ns, t)
    IN  IF t = NULL THEN [error |-> "get tree", rootNode |-> << >>]
        ELSE [error |-> "",
              rootNode |-> IF \E i \in DOMAIN allNodes : allNodes[i] = ts[t].root
                           THEN <<rebuildNode(ns, allNodes, ts[t].root)>>
                           ELSE << >>]

\* a store holding one recipe whose tree CreateRecipeTree has just created
InitChain ==
    /\ \E u \in Users, d \in Defs :
          /\ recipes = <<[RecipeRow(u, d, <<HistoryEntry(d, "import_link")>>) EXCEPT !.treeRef = 1]>>
          /\ nodes = <<NodeRow(1, NULL, d, "import_link", "original", u, TRUE)>>
    /\ trees = <<TreeRow(1, 1)>>
    /\ blobs = {}
    /\ calls = [c \in Slots |-> Idle]
    /\ ret = 0
    /\ err = ""
    /\ lastAct = <<1>>
    /\ treeFail = {}
    /\ tasks = [t \in Tasks |-> NoTask]

\* FinishRegenerateRecipe's commit run by itself: UpdateRecipeDef, the
\* hashtags, then the node appended as active under the node GetActiveNode
\* returns.
RegenCommit(d) ==
    LET t == GetTreeByRecipeID(trees, 1)
        a == GetActiveNode(nodes, t)
    IN  /\ Len(nodes) < MaxChain
        /\ t # NULL /\ a # NULL
        /\ recipes' = UpdateRecipeTagsAssociation(UpdateRecipeDefTx(recipes, 1, d, "chat"), 1, d)
        /\ nodes' = AddNodeToTreeTx(nodes,
                       NodeRow(t, a, d, "regen_chat", nodes[a].branch, recipes[1].owner, FALSE),
                       TRUE)
        /\ lastAct' = [lastAct EXCEPT ![t] = Len(nodes) + 1]
        /\ ret' = 0
        /\ err' = ""
        /\ UNCHANGED <<trees, blobs, calls, treeFail, tasks>>

NextChain == \E d \in Defs : RegenCommit(d)

SpecChain == InitChain /\ [][NextChain]_vars

\* the responses of a nested response, parents before their children
RECURSIVE Preorder(_)
Preorder(resp) ==
    LET RECURSIVE Kids(_)
        Kids(i) == IF i > Len(resp.children) THEN << >>
                   ELSE Preorder(resp.children[i]) \o Kids(i + 1)
    IN  <<[id |-> resp.id, active |-> resp.active, width |-> Len(resp.children)]>> \o Kids(1)

\* C13: for a tree built by CreateRecipeTree followed by N appends as
\* active, each under the then-active node, GetTree returns a single chain
\* of depth N+1 from the tree's root that holds every node exactly once, the
\* node appended last being the deepest leaf and the only one marked active.
C13_FullTreeIsChain ==
    LET g == GetTree(trees, nodes, 1)
        p == Preorder(g.rootNode[1])
    IN  /\ g.error = ""
        /\ Len(g.rootNode) = 1
        /\ g.rootNode[1].id = trees[1].root
        /\ Len(p) = Len(nodes)
        /\ \A i \in DOMAIN p :
              /\ p[i].id = i
              /\ p[i].width = (IF i = Len(p) THEN 0 ELSE 1)
              /\ p[i].active = (i = Len(nodes))

\* C13 witness: the tree read back after four appends: five nodes deep.
C13_Witness ==
    /\ Len(nodes) = 5
    /\ Len(Preorder(GetTree(trees, nodes, 1).rootNode[1])) = 5
    /\ nodes[5].parent = 4 /\ nodes[5].active

\* ------------------------------------------------------------- properties of the edit tree

NodesOf(t) == {n \in NodeIds : nodes[n].tree = t}

C9_ParentWalkEndsAtRoot ==
    /\ \A n \in NodeIds :
          /\ nodes[n].tree \in TreeIds
          /\ GetNodeAncestors(nodes, n).end = "root"
          /\ GetNodeAncestors(nodes, n).chain[1] = trees[nodes[n].tree].root
          /\ \A i \in DOMAIN GetNodeAncestors(nodes, n).chain :
                nodes[GetNodeAncestors(nodes, n).chain[i]].tree = nodes[n].tree
    /\ \A t \in TreeIds :
          Cardinality({n \in NodesOf(t) : nodes[n].parent = NULL}) = 1

\* C9 witness: a node two levels below its root, in a database that holds a
\* branch node.
C9_Witness ==
    \E n \in NodeIds :
        /\ Len(GetNodeAncestors(nodes, n).chain) = 3
        /\ nodes[n].type = ""

\* C10: a SetActiveNode request for a node that CreateBranch created
\* answers 200 only with the recipe's materialized fields equal to that
\* node's stored snapshot.
C10_BranchSwitchMaterializes ==
    [][\A c \in Slots :
          (/\ calls[c].kind = "switch"
           /\ calls'[c] = Idle
           /\ ret' = 200
           /\ nodes[calls[c].n].type = "")
          => recipes'[calls[c].r].def = nodes'[calls[c].n].resp]_vars

\* C7: when a SetActiveNode request has answered 200 and nothing is in
\* flight any more, the recipe it switched, if still present and with all
\* its tree writes succeeded, has materialized fields equal to the snapshot
\* of its tree's active node.
C7_FieldsMatchActiveNode ==
    [][\A c \in Slots :
          (/\ calls[c].kind = "switch"
           /\ ret' = 200
           /\ \A c2 \in Slots : calls'[c2] = Idle
           /\ Visible(recipes', calls[c].r)
           /\ calls[c].r \notin treeFail')
          => recipes'[calls[c].r].def =
                nodes'[GetActiveNode(nodes', GetTreeByRecipeID(trees', calls[c].r))].resp]_vars

\* C11 (as stated): a node whose snapshot is empty is never the active node
\* of its tree.
C11_EmptyNodeNeverActive ==
    \A n \in NodeIds : nodes[n].resp = NoDef => ~nodes[n].active

\* C12: GetNodeAncestors returns, root first, the chain from the tree's
\* recorded root down to the node, each element the parent of the next; and
\* for a root R with a child A appended as active by a regeneration and a
\* sibling B that CreateBranch made under R, the ancestors of A are R, A,
\* those of B are R, B, and once an activation of B is the last one
\* committed on the tree, GetActiveNode returns B and A is inactive.
C12_AncestorsRootFirst ==
    /\ \A n \in NodeIds :
          LET w == GetNodeAncestors(nodes, n)
          IN  /\ w.end = "root"
              /\ Len(w.chain) >= 1
              /\ w.chain[1] = trees[nodes[n].tree].root
              /\ w.chain[Len(w.chain)] = n
              /\ \A i \in 1..(Len(w.chain) - 1) : nodes[w.chain[i + 1]].parent = w.chain[i]
    /\ \A R, A, B \in NodeIds :
          (/\ nodes[R].parent = NULL
           /\ nodes[A].parent = R /\ nodes[A].type = "regen_chat"
           /\ nodes[B].parent = R /\ nodes[B].type = "")
          => /\ GetNodeAncestors(nodes, A).chain = <<R, A>>
             /\ GetNodeAncestors(nodes, B).chain = <<R, B>>
             /\ lastAct[nodes[B].tree] = B
                   => /\ GetActiveNode(nodes, nodes[B].tree) = B
                      /\ ~nodes[A].active

\* C12 witness: a root with a regenerated child and a branch sibling, the
\* branch sibling activated last.
C12_Witness ==
    \E R, A, B \in NodeIds :
        /\ nodes[R].parent = NULL
        /\ nodes[A].parent = R /\ nodes[A].type = "regen_chat"
        /\ nodes[B].parent = R /\ nodes[B].type = ""
        /\ lastAct[nodes[B].tree] = B
        /\ nodes[B].active

\* C16: a CreateBranch whose parent node is not in the tree of the recipe
\* fails and creates no node; and in every state every node that has a
\* parent is in the same tree as its parent.
C16_ParentInSameTree ==
    [][/\ err' = "parent not in tree" => (nodes' = nodes /\ ret' # 201)
       /\ \A n \in DOMAIN nodes' :
             nodes'[n].parent # NULL =>
                /\ nodes'[n].parent \in DOMAIN nodes'
                /\ nodes'[nodes'[n].parent].tree = nodes'[n].tree]_vars

\* C16 witness: a CreateBranch has just been refused for a parent in
\* another recipe's tree, in a store that holds a branch node.
C16_Witness ==
    /\ err = "parent not in tree"
    /\ ret = 500
    /\ \E n \in NodeIds : nodes[n].type = "" /\ nodes[n].parent # NULL

\* C17 (as stated): a PUT of the active node that fails because the
\* recipe's tree does not exist, or because the node does not exist or is
\* in another tree, answers 404.
C17_NotFoundAnswers404 ==
    [][err' \in {"set active node: get tree", "set active node: not in tree"}
          => ret' = 404]_vars

\* C19 (as stated): once a recipe is deleted its tree and nodes no longer
\* exist: GetTree finds no tree for it and no node row belongs to it.
C19_DeletedRecipeHasNoTree ==
    \A r \in RecipeIds :
        recipes[r].deleted =>
           /\ GetTree(trees, nodes, r).error # ""
           /\ \A n \in NodeIds : trees[nodes[n].tree].recipe # r

\* Finish has returned and neither sub-task will take another step: each
\* has returned or is left on a send nobody receives.
Stopped(t) ==
    /\ tasks[t].par = "done"
    /\ tasks[t].txt \in {"send", "done"}
    /\ tasks[t].img \in {"none", "send", "done"}

\* the trees of a recipe
TreesOf(r) == {t \in TreeIds : trees[t].recipe = r}

\* C14: a CreateRecipeTree for a recipe that already has a tree fails and
\* leaves the trees, the nodes with their active flags and the recipes with
\* their tree references as they were; and whatever imports, forks and
\* migrations ran, a recipe has at most one tree.
C14_AtMostOneTree ==
    [][/\ err' = "duplicate tree" => (trees' = trees /\ nodes' = nodes /\ recipes' = recipes)
       /\ \A r \in DOMAIN recipes' :
             Cardinality({t \in DOMAIN trees' : trees'[t].recipe = r}) <= 1]_vars

\* C14 witness: a CreateRecipeTree has just been rejected for a recipe that
\* the migration gave a tree between the recipe's creation and the call.
C14_Witness ==
    /\ err = "duplicate tree"
    /\ \E r \in treeFail : Cardinality(TreesOf(r)) = 1 /\ recipes[r].treeRef \in TreesOf(r)

\* the recipe has one tree, that tree has one node, the root: parentless,
\* active, labelled "original" and recorded on the tree, and the recipe's
\* tree reference is that tree
HasFreshTree(r) ==
    \E t \in TreeIds :
        /\ TreesOf(r) = {t}
        /\ recipes[r].treeRef = t
        /\ NodesOf(t) = {trees[t].root}
        /\ nodes[trees[t].root].parent = NULL
        /\ nodes[trees[t].root].active
        /\ nodes[trees[t].root].branch = "original"

\* a fork generation that ended COMMITTED, or an import that has returned,
\* for a recipe that is still there
Succeeded(r) ==
    /\ Visible(recipes, r)
    /\ \/ \E t \in Tasks : tasks[t].flow = "fork" /\ tasks[t].rid = r
                             /\ Stopped(t) /\ tasks[t].out = "COMMITTED"
       \/ /\ recipes[r].hist # << >>
          /\ recipes[r].hist[1].type = "import_link"
          /\ \A c \in Slots : ~(calls[c].kind = "import" /\ calls[c].r = r)

\* no tree row, root node or reference exists without the others
TreeAllOrNothing ==
    /\ \A t \in TreeIds :
          /\ trees[t].root \in NodesOf(t)
          /\ nodes[trees[t].root].parent = NULL
          /\ Visible(recipes, trees[t].recipe) => recipes[trees[t].recipe].treeRef = t
    /\ \A n \in NodeIds : nodes[n].tree \in TreeIds
    /\ \A r \in RecipeIds :
          recipes[r].treeRef # NULL => (recipes[r].treeRef \in TreeIds
                                        /\ trees[recipes[r].treeRef].recipe = r)

\* C15 (as stated): after a successful import or fork generation the new
\* recipe has exactly one tree holding exactly its root node.
C15_SuccessHasTree ==
    \A r \in RecipeIds : Succeeded(r) => HasFreshTree(r)

\* C15 (amended): after a successful import or fork generation the new
\* recipe has exactly one tree holding exactly its root node, unless the
\* tree write failed, which is logged and leaves the recipe without a tree
\* and a tree reference; the tree row, the root node and both references
\* exist all together or not at all.
C15_SuccessHasTreeUnlessWriteFailed ==
    /\ \A r \in RecipeIds :
          Succeeded(r) =>
             \/ HasFreshTree(r)
             \/ r \in treeFail /\ TreesOf(r) = {} /\ recipes[r].treeRef = NULL
    /\ TreeAllOrNothing

\* C15 witness: a fork ended COMMITTED and left its recipe with a one-node
\* tree whose root holds the fork result.
C15_Witness ==
    \E r \in RecipeIds :
        /\ Succeeded(r)
        /\ HasFreshTree(r)
        /\ nodes[trees[recipes[r].treeRef].root].type = "fork"

\* the three tables as one store value
Store == [recipes |-> recipes, trees |-> trees, nodes |-> nodes]

\* C20: running the migration a second time changes nothing: after one run
\* a second run creates no tree row and no node row, every recipe the first
\* run migrated has exactly one tree and is no longer selected, and a
\* recipe that already had a tree is left with its row, tree and nodes as
\* they were.
C20_MigrationIdempotent ==
    LET S1 == MigrateRecipeHistoryToTree(Store)
        S2 == MigrateRecipeHistoryToTree(S1)
    IN  /\ S2 = S1
        /\ \A r \in Selected(S1.recipes) : Len(S1.recipes[r].hist) = 0
        /\ \A r \in Selected(recipes) :
              Len(recipes[r].hist) > 0 =>
                 Cardinality({t \in DOMAIN S1.trees : S1.trees[t].recipe = r}) = 1
        /\ \A r \in RecipeIds :
              TreesOf(r) # {} => S1.recipes[r] = recipes[r]
        /\ SubSeq(S1.trees, 1, Len(trees)) = trees
        /\ SubSeq(S1.nodes, 1, Len(nodes)) = nodes

\* C20 witness: a store in which one recipe already has its tree and
\* another, with a history, has none, so that the first run creates a tree.
C20_Witness ==
    /\ \E r \in RecipeIds : TreesOf(r) # {}
    /\ \E r \in Selected(recipes) : Len(recipes[r].hist) > 0
    /\ Len(MigrateRecipeHistoryToTree(Store).trees) = Len(trees) + 1

\* C21: for a recipe with a legacy history of k >= 1 entries and no tree,
\* the migration creates a tree with exactly k nodes forming one straight
\* chain in the history's order: the first entry's node is parentless and
\* is the root recorded on the tree, each later node's parent is the node
\* of the preceding entry, every node carries its entry's snapshot and type
\* and the label "original", and only the node of the last entry is active.
C21_MigrationBuildsChain ==
    [][\A r \in DOMAIN recipes :
          (recipes[r].treeRef = NULL /\ recipes'[r].treeRef # NULL) =>
             LET t == recipes'[r].treeRef
                 h == recipes[r].hist
                 k == Len(h)
                 b == Len(nodes)
             IN  /\ k >= 1
                 /\ t \in DOMAIN trees' /\ t \notin DOMAIN trees
                 /\ trees'[t] = TreeRow(r, b + 1)
                 /\ {n \in DOMAIN nodes' : nodes'[n].tree = t} = (b + 1)..(b + k)
                 /\ Len(nodes') = b + k
                 /\ SubSeq(nodes', 1, b) = nodes
                 /\ \A i \in 1..k :
                       /\ nodes'[b + i].parent = (IF i = 1 THEN NULL ELSE b + i - 1)
                       /\ nodes'[b + i].resp = h[i].resp
                       /\ nodes'[b + i].type = h[i].type
                       /\ nodes'[b + i].branch = "original"
                       /\ nodes'[b + i].active = (i = k)]_vars

\* C21 witness: a three-entry history migrated into a tree of three nodes,
\* the third under the second, after another recipe's one-entry history.
C21_Witness ==
    \E t \in TreeIds :
        /\ Cardinality(NodesOf(t)) = 3
        /\ Len(recipes[trees[t].recipe].hist) = 3
        /\ \E n \in NodesOf(t) : nodes[n].parent # NULL /\ nodes[n].parent # trees[t].root
                                  /\ nodes[n].active
        /\ Len(trees) = 2

\* the attributes of a node row other than its active flag
NodeAttrs(row) ==
    [tree |-> row.tree, parent |-> row.parent, resp |-> row.resp, type |-> row.type,
     branch |-> row.branch, by |-> row.by]

\* C27: no step (node addition, activation, branch creation, switch with
\* materialization, regeneration commit, tree creation, migration,
\* deletion) removes a node row or changes the tree, parent, snapshot,
\* type, branch label or creator of an existing node; and a CreateBranch
\* that succeeds adds one inactive node and leaves every existing node,
\* active flags included, and every recipe as they were.
C27_NodesKeepAttributes ==
    [][/\ Len(nodes') >= Len(nodes)
       /\ \A n \in DOMAIN nodes : NodeAttrs(nodes'[n]) = NodeAttrs(nodes[n])
       /\ ret' = 201 =>
             /\ Len(nodes') = Len(nodes) + 1
             /\ SubSeq(nodes', 1, Len(nodes)) = nodes
             /\ ~nodes'[Len(nodes')].active
             /\ recipes' = recipes]_vars

\* C27 witness: a CreateBranch has just added an inactive node to a tree
\* whose active node is a regenerated one.
C27_Witness ==
    /\ ret = 201
    /\ nodes[Len(nodes)].type = "" /\ ~nodes[Len(nodes)].active
    /\ \E m \in NodeIds :
          /\ nodes[m].tree = nodes[Len(nodes)].tree
          /\ nodes[m].type = "regen_chat"
          /\ nodes[m].active

\* C30 (as stated): a SetActiveNode of the tree service that returns an
\* error, no other one being in flight, leaves the tree's active node and
\* the recipe's materialized fields as they were when it was called.
C30_SwitchAllOrNothing ==
    [][\A c \in Slots :
          (/\ calls[c].kind = "switch"
           /\ calls'[c] = Idle
           /\ ret' = 500
           /\ \A c2 \in Slots \ {c} : calls[c2].kind # "switch")
          => /\ GetActiveNode(nodes', GetTreeByRecipeID(trees', calls[c].r)) = calls[c].was.node
             /\ recipes'[calls[c].r].def = calls[c].was.def]_vars

\* C18: an Init that fails (no personalization, recipe to regenerate or
\* fork not found, caller not the owner of the recipe to regenerate, new
\* row not stored) answers an error, leaves the recipes as they are and
\* starts no Finish; an Init that succeeds starts exactly one Finish, for a
\* regeneration on a recipe the caller owns, for a fork on the one row it
\* created; and a Finish is started by nothing else.
C18_InitFailsCleanly ==
    [][/\ err' \in {"personalization", "get existing recipe", "unauthorized", "save recipe"}
             => (ret' = 500 /\ recipes' = recipes /\ tasks' = tasks)
       /\ ret' = 200 =>
             \E t \in Tasks :
                /\ tasks[t] = NoTask
                /\ tasks'[t].par = "wait_text"
                /\ \A t2 \in Tasks \ {t} : tasks'[t2] = tasks[t2]
                /\ tasks'[t].flow = "regen" =>
                      /\ recipes' = recipes
                      /\ Visible(recipes, tasks'[t].rid)
                      /\ recipes[tasks'[t].rid].owner = tasks'[t].by
                /\ tasks'[t].flow = "fork" =>
                      /\ tasks'[t].rid = Len(recipes) + 1
                      /\ recipes' = Append(recipes, RecipeRow(tasks'[t].by, NoDef, << >>))
       /\ \A t \in Tasks : (tasks[t] = NoTask /\ tasks'[t] # NoTask) => ret' = 200]_vars

\* C18 witness: a regeneration has just been refused to a caller who does
\* not own the recipe; no Finish runs and the recipe is as it was.
C18_Witness ==
    /\ err = "unauthorized"
    /\ ret = 500
    /\ \A t \in Tasks : tasks[t] = NoTask
    /\ Visible(recipes, 1)

\* ------------------------------------------------------------- properties of the orchestrator

\* C2: a Finish invocation (regenerate or fork) whose text provider returned
\* a valid result before the deadline, with the deadline never reached and
\* the store accepting the commit, ends COMMITTED: the recipe exists, its
\* materialized fields are the generated result and the result is the
\* history record appended last.
C2_ValidTextEndsCommitted ==
    \A t \in Tasks :
        (/\ tasks[t].flow \in {"regen", "fork"}
         /\ Stopped(t)
         /\ tasks[t].textOK
         /\ validateRecipeCoreFields(tasks[t].res)
         /\ ~tasks[t].expired
         /\ tasks[t].terr # "store")
        => /\ tasks[t].out = "COMMITTED"
           /\ Visible(recipes, tasks[t].rid)
           /\ recipes[tasks[t].rid].def = tasks[t].res
           /\ Len(recipes[tasks[t].rid].hist) > 0
           /\ recipes[tasks[t].rid].hist[Len(recipes[tasks[t].rid].hist)]
                 = HistoryEntry(tasks[t].res, "chat")

\* C3: a fork whose text generation failed, or whose deadline passed during
\* text generation, and whose parent ran the compensating delete without an
\* error, leaves, once Finish and its sub-tasks have stopped, no recipe row
\* and no tree or node for the recipe Init created.
C3_FailedForkLeavesNothing ==
    \A t \in Tasks :
        (/\ tasks[t].flow = "fork"
         /\ Stopped(t)
         /\ tasks[t].terr = "provider" \/ tasks[t].expGen
         /\ tasks[t].out = "DELETED"
         /\ ~tasks[t].delErr)
        => /\ ~Visible(recipes, tasks[t].rid)
           /\ GetTreeByRecipeID(trees, tasks[t].rid) = NULL
           /\ \A n \in NodeIds : trees[nodes[n].tree].recipe # tasks[t].rid

\* C4: a regeneration of the legacy recipe that failed (the text provider
\* returned an error, or the deadline passed during text generation) leaves
\* the recipe as it was when the regeneration was requested: present, with
\* the same fields, history, tree, nodes and active node.
C4_FailedRegenLeavesRecipe ==
    \A t \in Tasks :
        (/\ tasks[t].flow = "regen"
         /\ tasks[t].rid = 1
         /\ Stopped(t)
         /\ tasks[t].terr = "provider" \/ tasks[t].expGen)
        => /\ Visible(recipes, 1)
           /\ recipes[1].def = MigratedLegacy.def
           /\ recipes[1].hist \in LegacyHistories
           /\ trees[1] = TreeRow(1, 1)
           /\ NodesOf(1) = 1..Len(recipes[1].hist)
           /\ ActiveNodes(nodes, 1) = {Len(recipes[1].hist)}

\* C22 (as stated): in the fork flow, whenever the source recipe has at
\* least one history turn, the context handed to ForkRecipe is not empty.
C22_ForkContextFromSource ==
    \A t \in Tasks :
        (tasks[t].flow = "fork" /\ Len(recipes[tasks[t].src].hist) >= 1)
        => tasks[t].ctx # << >>

\* C23 (as stated): the context built from a history of k turns holds one
\* user/assistant pair per turn in turn order, 2k messages; the assistant
\* message of the last turn is the current definition, that of every
\* earlier turn is the turn's stored summary.
C23_OnePairPerTurn ==
    \A t \in Tasks :
        tasks[t].flow = "regen" =>
           LET h == recipes[tasks[t].rid].hist
               k == Len(h)
               m == tasks[t].ctx
           IN  /\ Len(m) = 2 * k
               /\ \A i \in 1..k :
                     /\ m[2 * i - 1].role = "user"
                     /\ m[2 * i].role = "assistant"
                     /\ m[2 * i].content =
                           (IF i = k THEN Marshal(recipes[tasks[t].rid].def)
                            ELSE Content("summary", h[i].summary))

C25_TreeBeforeHashtags ==
    [][\A t \in Tasks :
          (tasks[t].txt = "tags" /\ tasks'[t].txt # "tags")
          => /\ tasks'[t].txt = "send"
             /\ GetTreeByRecipeID(trees, tasks[t].rid) # NULL
                   \/ tasks[t].rid \in treeFail]_vars

\* C25 (amended): on commit the text sub-task writes in this order: the
\* recipe's fields together with the appended history record, in one
\* transaction; then the hashtags; then the tree (the node under the
\* active node, or the new tree with its root); then it signals.  No step
\* before the tree step touches a tree or a node, and the tree step
\* touches neither fields, history nor hashtags.
C25_FieldsHistoryTagsTree ==
    [][\A t \in Tasks :
          LET r == tasks[t].rid
          IN  /\ (tasks[t].txt = "commit" /\ tasks'[t].txt # "commit") =>
                    /\ trees' = trees /\ nodes' = nodes
                    /\ \/ tasks'[t].txt = "send" /\ tasks'[t].terr # "" /\ recipes' = recipes
                       \/ /\ tasks'[t].txt = "tags"
                          /\ recipes'[r].hist =
                                Append(recipes[r].hist, HistoryEntry(tasks[t].res, "chat"))
                          /\ Visible(recipes, r) => recipes'[r].def = tasks[t].res
                          /\ recipes'[r].tags = recipes[r].tags
              /\ (tasks[t].txt = "tags" /\ tasks'[t].txt # "tags") =>
                    /\ tasks'[t].txt = "tree"
                    /\ trees' = trees /\ nodes' = nodes
                    /\ recipes'[r].def = recipes[r].def /\ recipes'[r].hist = recipes[r].hist
                    /\ recipes'[r].tags \in {recipes[r].tags, tasks[t].res}
              /\ (tasks[t].txt = "tree" /\ tasks'[t].txt # "tree") =>
                    /\ tasks'[t].txt = "send"
                    /\ recipes'[r].def = recipes[r].def /\ recipes'[r].hist = recipes[r].hist
                    /\ recipes'[r].tags = recipes[r].tags]_vars

\* C25 witness: a fork's text sub-task is about to write the tree: fields,
\* history record and hashtags are those of the result, no tree exists yet.
C25_Witness ==
    \E t \in Tasks :
        /\ tasks[t].flow = "fork"
        /\ tasks[t].txt = "tree"
        /\ recipes[tasks[t].rid].def = tasks[t].res
        /\ recipes[tasks[t].rid].hist = <<HistoryEntry(tasks[t].res, "chat")>>
        /\ recipes[tasks[t].rid].tags = tasks[t].res
        /\ GetTreeByRecipeID(trees, tasks[t].rid) = NULL

\* C26: a tree write of a commit that fails changes nothing: the fields,
\* the appended history record and the hashtags stay as committed, the
\* sub-task signals success, and the parent taking that signal does not
\* delete the recipe and goes on to COMMITTED; once Finish has returned
\* COMMITTED after a failed tree write the recipe is there with the
\* generated fields and history record.
C26_TreeFailureNonFatal ==
    /\ [][\A t \in Tasks :
             /\ (tasks[t].txt = "tree" /\ tasks'[t].txt # "tree" /\ err' # "") =>
                   /\ recipes' = recipes /\ trees' = trees /\ nodes' = nodes
                   /\ tasks'[t].txt = "send" /\ tasks'[t].terr = ""
             /\ (tasks[t].txt = "send" /\ tasks[t].terr = "" /\ tasks'[t].txt = "done") =>
                   /\ tasks'[t].par \in {"wait_image", "done"}
                   /\ tasks'[t].out # "DELETED"
                   /\ recipes' = recipes]_vars
    /\ [](\A t \in Tasks :
             (tasks[t].par = "done" /\ tasks[t].out = "COMMITTED"
              /\ tasks[t].rid \in treeFail) =>
                /\ Visible(recipes, tasks[t].rid)
                /\ recipes[tasks[t].rid].def = tasks[t].res
                /\ recipes[tasks[t].rid].hist[Len(recipes[tasks[t].rid].hist)]
                      = HistoryEntry(tasks[t].res, "chat")
                /\ recipes[tasks[t].rid].tags \in {NoDef, tasks[t].res})

\* C26 witness: a fork ended COMMITTED although CreateRecipeTree failed:
\* the recipe has the generated fields, history record and hashtags and no tree.
C26_Witness ==
    \E t \in Tasks :
        /\ tasks[t].flow = "fork"
        /\ tasks[t].par = "done" /\ tasks[t].out = "COMMITTED"
        /\ tasks[t].rid \in treeFail
        /\ Visible(recipes, tasks[t].rid)
        /\ recipes[tasks[t].rid].def = tasks[t].res
        /\ recipes[tasks[t].rid].tags = tasks[t].res
        /\ TreesOf(tasks[t].rid) = {}

\* C28 (as stated): no sub-task of a Finish invocation stays blocked on
\* the send of its completion signal: once the parent has returned, after
\* which nothing receives, neither sub-task is at its send.
C28_NoSubTaskLeftSending ==
    \A t \in Tasks :
        tasks[t].par = "done" => (tasks[t].txt # "send" /\ tasks[t].img # "send")

\* C29 (as stated): once Finish has ended DELETED with the compensating
\* delete run without an error and its sub-tasks have stopped, object
\* storage holds no image blob for the deleted recipe.
C29_NoBlobAfterDelete ==
    \A t \in Tasks :
        (Stopped(t) /\ tasks[t].out = "DELETED" /\ ~tasks[t].delErr)
        => tasks[t].rid \notin blobs

\* the columns of the recipes table the text commit owns
TextSide(rs) ==
    [x \in DOMAIN rs |->
        [def |-> rs[x].def, hist |-> rs[x].hist, treeRef |-> rs[x].treeRef,
         deleted |-> rs[x].deleted]]

C8_TextCommitBeforeImageUrl ==
    [][\A t \in Tasks :
          (~tasks[t].imgSet /\ tasks'[t].imgSet)
          => (tasks[t].txt \in {"send", "done"} /\ tasks[t].terr = "")]_vars

\* C8 (amended): within one generation event the image URL is persisted
\* only after the text provider has returned a result for that event; the
\* text commit and the image-URL update are not ordered.
C8_TextResultBeforeImageUrl ==
    [][\A t \in Tasks :
          (~tasks[t].imgSet /\ tasks'[t].imgSet)
          => (tasks[t].res # NoDef /\ tasks[t].txt # "gen")]_vars

\* C8 witness: the image URL of an event was persisted while its text
\* commit had not been made yet.
C8_Witness ==
    \E t \in Tasks :
        /\ tasks[t].imgSet
        /\ tasks[t].imgEarly
        /\ recipes[tasks[t].rid].image

====
